---- MODULE Spec2Model ----
(***************************************************************************)
(* Model of scqubits/core/namedslots_array.py: Parameters (the ordered set *)
(* of named parameter value arrays), GIndexObject (classification of one   *)
(* index entry) and NamedSlotsNdarray (the ndarray subclass with value-    *)
(* and name-based slicing, and its (de)serialisation).                     *)
(*                                                                         *)
(* Encoding.  Floats are numbers on a fixed grid and are written as the    *)
(* integer number of grid units; a Python value is a record [t, v, s]      *)
(* whose tag t tells None / int / float / str apart, so 1 and 1.0 differ.  *)
(* For grid numbers a /= b of the magnitudes used here, |a - b| is at      *)
(* least one unit and 1e-9 * max(|a|, |b|) is far below it, so             *)
(* math.isclose(a, b) is a = b.                                            *)
(* An ndarray is [shape, flat]: its shape and its elements in row-major    *)
(* order.  Python positions are 0-based; TLA+ sequences are 1-based.       *)
(***************************************************************************)
EXTENDS Integers, Sequences, FiniteSets, TLC

VARIABLES heap, last, ncalls, pset

vars == <<heap, last, ncalls, pset>>

----------------------------------------------------------------------------
(* Python values *)

None == [t |-> "none", v |-> 0, s |-> ""]
IntV(i) == [t |-> "int", v |-> i, s |-> ""]
FloatV(x) == [t |-> "float", v |-> x, s |-> ""]
StrV(n) == [t |-> "str", v |-> 0, s |-> n]

(* An index entry: a single value, or slice(start, stop, step). *)
Atom(x) == [kind |-> "atom", val |-> x, start |-> None, stop |-> None, step |-> None]
Slice(a, b, c) == [kind |-> "slice", val |-> None, start |-> a, stop |-> b, step |-> c]
FullSlice == Slice(None, None, None)

(* Outcomes: err = "" is a normal return, otherwise the exception raised. *)
NoErr == ""
IndexErr == "IndexError"
KeyErr == "KeyError"
ValueErr == "ValueError"
TypeErr == "TypeError: invalid index"
MixedErr == "TypeError: If one index is name-based, all indices must be."

Abs(x) == IF x < 0 THEN -x ELSE x

Range(s) == {s[i] : i \in 1..Len(s)}

RECURSIVE Prod(_)
Prod(s) == IF s = <<>> THEN 1 ELSE Head(s) * Prod(Tail(s))

RECURSIVE Flatten(_)
Flatten(ss) == IF ss = <<>> THEN <<>> ELSE Head(ss) \o Flatten(Tail(ss))

(* Position (1-based) of the first occurrence of x in s, 0 if absent. *)
FirstPos(s, x) ==
    IF \E i \in 1..Len(s) : s[i] = x
    THEN CHOOSE i \in 1..Len(s) : s[i] = x /\ \A j \in 1..(i - 1) : s[j] /= x
    ELSE 0

(* The keys of a dict built by inserting the items of s in order. *)
RECURSIVE DictKeys(_)
DictKeys(s) ==
    IF s = <<>> THEN <<>>
    ELSE LET init == DictKeys(SubSeq(s, 1, Len(s) - 1))
             x == s[Len(s)]
         IN  IF x \in Range(init) THEN init ELSE Append(init, x)

----------------------------------------------------------------------------
(* Python sequence indexing *)

(* seq[i] for an int i: the 0-based position, or -1 for IndexError. *)
NormIndex(i, n) ==
    LET j == IF i < 0 THEN i + n ELSE i
    IN  IF j >= 0 /\ j < n THEN j ELSE -1

(* The 0-based positions slice(start, stop, step) selects from a sequence  *)
(* of length n (slice.indices); step 0 is a ValueError.                    *)
SliceIndices(sl, n) ==
    LET st == IF sl.step.t = "none" THEN 1 ELSE sl.step.v
        clampUp(x) == IF x < 0 THEN (IF x + n < 0 THEN 0 ELSE x + n)
                      ELSE (IF x > n THEN n ELSE x)
        clampDn(x) == IF x < 0 THEN (IF x + n < 0 THEN -1 ELSE x + n)
                      ELSE (IF x >= n THEN n - 1 ELSE x)
        lo == IF st > 0
              THEN (IF sl.start.t = "none" THEN 0 ELSE clampUp(sl.start.v))
              ELSE (IF sl.start.t = "none" THEN n - 1 ELSE clampDn(sl.start.v))
        hi == IF st > 0
              THEN (IF sl.stop.t = "none" THEN n ELSE clampUp(sl.stop.v))
              ELSE (IF sl.stop.t = "none" THEN -1 ELSE clampDn(sl.stop.v))
        cnt == IF st > 0
               THEN (IF hi > lo THEN ((hi - lo - 1) \div st) + 1 ELSE 0)
               ELSE (IF lo > hi THEN ((lo - hi - 1) \div (-st)) + 1 ELSE 0)
    IN  IF st = 0 THEN [err |-> ValueErr, idx |-> <<>>]
        ELSE [err |-> NoErr, idx |-> [j \in 1..cnt |-> lo + (j - 1) * st]]

----------------------------------------------------------------------------
(* The dense array: numpy basic indexing with ints, slices and None *)

Err(e) == [err |-> e]

Stride(shape, d) == Prod(SubSeq(shape, d + 1, Len(shape)))

(* What an index tuple selects: per source dimension the 0-based positions *)
(* taken (sel), and the shape of the result (rshape).  d is the next       *)
(* source dimension an entry consumes.                                     *)
RECURSIVE IndexPlan(_, _, _)
IndexPlan(shape, idxs, d) ==
    IF idxs = <<>>
    THEN [err |-> NoErr,
          sel |-> [k \in 1..(Len(shape) - d + 1) |->
                      [j \in 1..shape[d + k - 1] |-> j - 1]],
          rshape |-> SubSeq(shape, d, Len(shape))]
    ELSE LET e == Head(idxs) IN
         IF e.kind = "atom" /\ e.val.t = "none"
         THEN LET r == IndexPlan(shape, Tail(idxs), d)
              IN  IF r.err /= NoErr THEN r
                  ELSE [r EXCEPT !.rshape = <<1>> \o @]
         ELSE IF d > Len(shape) THEN Err(IndexErr)
         ELSE IF e.kind = "atom"
         THEN LET p == NormIndex(e.val.v, shape[d])
                  r == IndexPlan(shape, Tail(idxs), d + 1)
              IN  IF p = -1 THEN Err(IndexErr)
                  ELSE IF r.err /= NoErr THEN r
                  ELSE [r EXCEPT !.sel = << <<p>> >> \o @]
         ELSE LET si == SliceIndices(e, shape[d])
                  r == IndexPlan(shape, Tail(idxs), d + 1)
              IN  IF si.err /= NoErr THEN Err(si.err)
                  ELSE IF r.err /= NoErr THEN r
                  ELSE [r EXCEPT !.sel = <<si.idx>> \o @,
                                 !.rshape = <<Len(si.idx)>> \o @]

(* The selected elements in row-major order. *)
RECURSIVE Gather(_, _, _, _, _)
Gather(shape, flat, sel, d, base) ==
    IF d > Len(shape) THEN <<flat[base + 1]>>
    ELSE Flatten([j \in 1..Len(sel[d]) |->
                     Gather(shape, flat, sel, d + 1,
                            base + sel[d][j] * Stride(shape, d))])

(* ndarray.__getitem__ with a tuple of ints, int slices and None: a        *)
(* sub-array, or a scalar when every dimension is indexed by an int.       *)
NativeGetitem(arr, idxs) ==
    LET Result(plan) ==
            IF plan.err /= NoErr THEN Err(plan.err)
            ELSE [err |-> NoErr,
                  scalar |-> plan.rshape = <<>>,
                  shape |-> plan.rshape,
                  flat |-> Gather(arr.shape, arr.flat, plan.sel, 1, 0)]
    IN  Result(IndexPlan(arr.shape, idxs, 1))

(* A 1-d value array indexed by one int, slice or None. *)
NativeGetitem1(vals, e) == NativeGetitem([shape |-> <<Len(vals)>>, flat |-> vals], <<e>>)

----------------------------------------------------------------------------
(* idx_for_value *)

ArgMin(ds) ==
    CHOOSE i \in 1..Len(ds) :
        /\ \A j \in 1..Len(ds) : ds[i] <= ds[j]
        /\ \A j \in 1..(i - 1) : ds[j] > ds[i]

IsClose(a, b) == a = b

idx_for_value(value, param_vals) ==
    LET Found(location) ==
            IF IsClose(param_vals[location], value)
            THEN [err |-> NoErr, idx |-> location - 1]
            ELSE [err |-> ValueErr, idx |-> 0]
    IN  IF param_vals = <<>> THEN [err |-> ValueErr, idx |-> 0]
        ELSE Found(ArgMin([i \in 1..Len(param_vals) |-> Abs(param_vals[i] - value)]))

----------------------------------------------------------------------------
(* class Parameters *)

LastPos(s, x) == CHOOSE i \in 1..Len(s) : s[i] = x /\ \A j \in (i + 1)..Len(s) : s[j] /= x

index_by_name(names) == [n \in Range(names) |-> LastPos(names, n) - 1]

(* name_by_index as it would be were the positions counted from 1. *)
name_by_index_from_one(names) == [i \in 1..Len(names) |-> names[i]]

name_by_index(names) == [i \in 0..(Len(names) - 1) |-> names[i + 1]]

(* Parameters.__init__ on a dict (its keys in order, its values) and the   *)
(* name order; a name that is no key is a KeyError.                        *)
ParametersInit(keys, vals, names) ==
    IF \E i \in 1..Len(names) : names[i] \notin Range(keys) THEN Err(KeyErr)
    ELSE [err |-> NoErr,
          paramnames_list |-> names,
          keys |-> DictKeys(names),
          vals |-> [n \in Range(names) |-> vals[n]],
          index_by_name |-> index_by_name(names),
          name_by_index |-> name_by_index(names)]

(* Parameters(paramvals_by_name): the name order is the dict's key order. *)
ParametersOfDict(keys, vals) == ParametersInit(keys, vals, keys)

paramvals_list(p) == [i \in 1..Len(p.paramnames_list) |-> p.vals[p.paramnames_list[i]]]

(* Parameters.__getitem__ for a str key and for an int key. *)
ParamByName(p, name) ==
    IF name \in DOMAIN p.vals THEN [err |-> NoErr, vals |-> p.vals[name]]
    ELSE [err |-> KeyErr, vals |-> <<>>]

ParamBySlot(p, slot) ==
    LET At(j) == IF j = -1 THEN [err |-> IndexErr, vals |-> <<>>]
                 ELSE [err |-> NoErr, vals |-> p.vals[p.paramnames_list[j + 1]]]
    IN  At(NormIndex(slot, Len(p.paramnames_list)))

(* The first error among a sequence of outcomes, NoErr if none. *)
FirstErr(rs) ==
    IF \E i \in 1..Len(rs) : rs[i].err /= NoErr
    THEN rs[CHOOSE i \in 1..Len(rs) :
                rs[i].err /= NoErr /\ \A j \in 1..(i - 1) : rs[j].err = NoErr].err
    ELSE NoErr

(* create_reduced: fv = [given, vals] is fixed_values (given = FALSE: None) *)
OwnFirstValue(p, name) ==
    LET First(r) == IF r.err /= NoErr THEN r
                    ELSE IF r.vals = <<>> THEN [err |-> IndexErr, vals |-> <<>>]
                    ELSE [err |-> NoErr, vals |-> <<r.vals[1]>>]
    IN  First(ParamByName(p, name))

(* create_reduced as it would be with create_sliced's rule that an axis of *)
(* a single value is left out of the result.                               *)
create_reduced_dropping_fixed(p, fixed_names, fv) ==
    LET Rest(keys) == ParametersOfDict(keys, [n \in Range(keys) |-> p.vals[n]])
    IN  IF \E i \in 1..Len(fixed_names) : fixed_names[i] \notin DOMAIN p.vals
        THEN Err(KeyErr)
        ELSE IF \E i \in 1..Len(fixed_names) : p.vals[fixed_names[i]] = <<>>
        THEN Err(IndexErr)
        ELSE Rest(SelectSeq(DictKeys(p.paramnames_list),
                            LAMBDA n : n \notin Range(fixed_names)))

create_reduced(p, fixed_names, fv) ==
    LET Reduced(fixed_values, keys) ==
            ParametersOfDict(keys,
                [n \in Range(keys) |->
                    IF n \in Range(fixed_names)
                    THEN fixed_values[LastPos(fixed_names, n)]
                    ELSE p.vals[n]])
        Given(keys) ==
            IF Len(fv.vals) < Len(fixed_names) THEN Err(IndexErr)
            ELSE Reduced(fv.vals, keys)
        Own(own, keys) ==
            IF FirstErr(own) /= NoErr THEN Err(FirstErr(own))
            ELSE Reduced([i \in 1..Len(own) |-> own[i].vals], keys)
    IN  IF fv.given THEN Given(DictKeys(p.paramnames_list \o fixed_names))
        ELSE Own([i \in 1..Len(fixed_names) |-> OwnFirstValue(p, fixed_names[i])],
                 DictKeys(p.paramnames_list))

(* create_sliced.  np.asarray(paramvals_list, dtype=object) is a 2-d       *)
(* object array when the value arrays all have one length (one array       *)
(* included), and a 1-d array of the value arrays otherwise.  An item of   *)
(* the result is [nd, vals]: nd = TRUE for an ndarray whose len() is       *)
(* len, nd = FALSE for a scalar.                                           *)
IsRect(pl) == pl /= <<>> /\ \A i \in 1..Len(pl) : Len(pl[i]) = Len(pl[1])

(* parameter_array[index] = parameter_array[index][np_index], 1-d case:    *)
(* the element is replaced by the indexed value array.                     *)
SlicedItemRagged(vals, e) ==
    LET Item(r) ==
            IF r.err /= NoErr THEN Err(r.err)
            ELSE IF r.scalar THEN [err |-> NoErr, nd |-> FALSE, len |-> 0, vals |-> r.flat]
            ELSE [err |-> NoErr, nd |-> TRUE, len |-> Len(r.flat), vals |-> r.flat]
    IN  IF e.kind = "atom" /\ e.val.t = "none"
        THEN [err |-> NoErr, nd |-> TRUE, len |-> 1, vals |-> vals]
        ELSE Item(NativeGetitem1(vals, e))

(* The same statement, 2-d case: the indexed row is broadcast into the row. *)
SlicedItemRect(vals, e) ==
    LET Row(x) == [err |-> NoErr, nd |-> TRUE, len |-> Len(vals), vals |-> x]
        Item(r) ==
            IF r.err /= NoErr THEN Err(r.err)
            ELSE IF r.scalar \/ Len(r.flat) = 1
            THEN Row([j \in 1..Len(vals) |-> r.flat[1]])
            ELSE IF Len(r.flat) = Len(vals) THEN Row(r.flat)
            ELSE Err(ValueErr)
    IN  IF e.kind = "atom" /\ e.val.t = "none" THEN Row(vals)
        ELSE Item(NativeGetitem1(vals, e))

SlicedItem(rect, vals, e) ==
    IF rect THEN SlicedItemRect(vals, e) ELSE SlicedItemRagged(vals, e)

KeepSliced(item) == item.nd /\ item.len > 1

(* The loop over np_indices, then the untouched items of parameter_array. *)
SlicedItems(pl, np_indices) ==
    [i \in 1..(IF Len(np_indices) > Len(pl) THEN Len(np_indices) ELSE Len(pl)) |->
        IF i > Len(pl) THEN Err(IndexErr)
        ELSE IF i > Len(np_indices)
        THEN [err |-> NoErr, nd |-> TRUE, len |-> Len(pl[i]), vals |-> pl[i]]
        ELSE SlicedItem(IsRect(pl), pl[i], np_indices[i])]

create_sliced(p, np_indices) ==
    LET Dict(items, names, kept) ==
            ParametersOfDict(DictKeys(names),
                [n \in Range(names) |-> items[kept[LastPos(names, n)]].vals])
        Kept(items, kept) ==
            Dict(items, [j \in 1..Len(kept) |-> p.paramnames_list[kept[j]]], kept)
        Sliced(items) ==
            IF FirstErr(items) /= NoErr THEN Err(FirstErr(items))
            ELSE Kept(items, SelectSeq([i \in 1..Len(p.paramnames_list) |-> i],
                                       LAMBDA i : KeepSliced(items[i])))
    IN  Sliced(SlicedItems(paramvals_list(p), np_indices))

----------------------------------------------------------------------------
(* class GIndexObject *)

std_slice_entry(slice_entry, parameters, slot) ==
    LET Index(r) == IF r.err /= NoErr THEN [err |-> r.err, val |-> None]
                    ELSE [err |-> NoErr, val |-> IntV(r.idx)]
        Lookup(pv) == IF pv.err /= NoErr THEN [err |-> pv.err, val |-> None]
                      ELSE Index(idx_for_value(slice_entry.v, pv.vals))
    IN  IF slice_entry.t = "float" THEN Lookup(ParamBySlot(parameters, slot))
        ELSE IF slice_entry.t = "int" THEN [err |-> NoErr, val |-> slice_entry]
        ELSE IF slice_entry.t = "none" THEN [err |-> NoErr, val |-> None]
        ELSE [err |-> TypeErr, val |-> None]

(* GIndexObject.__init__ / std: [err, type, std_index, name] *)
GIndexObject(entry, parameters, slot) ==
    LET G(ty, ix, nm) == [err |-> NoErr, type |-> ty, std_index |-> ix, name |-> nm]
        Val(r) == IF r.err /= NoErr THEN Err(r.err) ELSE G("val", Atom(r.val), "")
        Named(start, stop) ==
            IF start.err /= NoErr THEN Err(start.err)
            ELSE IF stop.err /= NoErr THEN Err(stop.err)
            ELSE IF stop.val = None THEN G("slice.name", Atom(start.val), entry.start.s)
            ELSE G("slice.name", Slice(start.val, stop.val, None), entry.start.s)
        Std(start, stop) ==
            IF start.err /= NoErr THEN Err(start.err)
            ELSE IF stop.err /= NoErr THEN Err(stop.err)
            ELSE IF entry.step.t \notin {"none", "int"} THEN Err(TypeErr)
            ELSE G("slice", Slice(start.val, stop.val, entry.step), "")
        S(x) == std_slice_entry(x, parameters, slot)
    IN  IF entry.kind = "atom" /\ entry.val.t = "int" THEN G("int", entry, "")
        ELSE IF entry.kind = "atom" /\ entry.val.t = "float" THEN Val(S(entry.val))
        ELSE IF entry.kind = "slice" /\ entry.start.t = "str"
        THEN Named(S(entry.stop), S(entry.step))
        ELSE IF entry.kind = "slice" THEN Std(S(entry.start), S(entry.stop))
        ELSE Err(TypeErr)

----------------------------------------------------------------------------
(* class NamedSlotsNdarray *)

slot_count(self) == Len(self.parameters.keys)

(* converted_multi_index after the loop has run over the first n objects. *)
RECURSIVE NameBasedLoop(_, _, _)
NameBasedLoop(self, multi_index, n) ==
    LET Put(prev, g, slot_index) ==
            IF slot_index >= Len(prev.idx) THEN [err |-> IndexErr, idx |-> <<>>]
            ELSE [prev EXCEPT !.idx[slot_index + 1] = g.std_index]
        Step(prev, g) ==
            IF prev.err /= NoErr THEN prev
            ELSE IF g.type /= "slice.name" THEN [err |-> MixedErr, idx |-> <<>>]
            ELSE IF g.name \notin DOMAIN self.parameters.index_by_name
            THEN [err |-> KeyErr, idx |-> <<>>]
            ELSE Put(prev, g, self.parameters.index_by_name[g.name])
    IN  IF n = 0 THEN [err |-> NoErr, idx |-> [i \in 1..slot_count(self) |-> FullSlice]]
        ELSE Step(NameBasedLoop(self, multi_index, n - 1), multi_index[n])

name_based_to_std_index_tuple(self, multi_index) ==
    NameBasedLoop(self, multi_index, Len(multi_index))

to_std_index_tuple(self, multi_index) ==
    IF multi_index = <<>> THEN [err |-> IndexErr, idx |-> <<>>]
    ELSE IF multi_index[1].type = "slice.name"
    THEN name_based_to_std_index_tuple(self, multi_index)
    ELSE [err |-> NoErr, idx |-> [i \in 1..Len(multi_index) |-> multi_index[i].std_index]]

(* __new__: values_by_name is a dict (keys in order, vals). *)
implied_shape(keys, vals) == [i \in 1..Len(keys) |-> Len(vals[keys[i]])]

Min(a, b) == IF a < b THEN a ELSE b

NamedSlotsNdarray(input_array, keys, vals) ==
    IF SubSeq(input_array.shape, 1, Min(Len(keys), Len(input_array.shape)))
           /= implied_shape(keys, vals)
    THEN Err(ValueErr)
    ELSE [err |-> NoErr, shape |-> input_array.shape, flat |-> input_array.flat,
          parameters |-> ParametersOfDict(keys, vals)]

(* __getitem__.  multi_index = [bare, items]: one entry given on its own   *)
(* (bare) or a tuple of entries.  The result: [err, scalar, shape, flat,   *)
(* sliced, parameters, np_indices]; sliced tells that create_sliced made   *)
(* the parameters to assign to the result (otherwise the result keeps what *)
(* __array_finalize__ copied from self).                                   *)
getitem(self, multi_index) ==
    LET R(o, sl, ps, np) == [err |-> NoErr, scalar |-> o.scalar, shape |-> o.shape,
                             flat |-> o.flat, sliced |-> sl, parameters |-> ps,
                             np_indices |-> np]
        BareInt(obj) ==
            IF obj.err /= NoErr THEN Err(obj.err)
            ELSE R(obj, FALSE, self.parameters, multi_index.items)
        Sliced(obj, np_indices, ps) ==
            IF ps.err /= NoErr THEN Err(ps.err) ELSE R(obj, TRUE, ps, np_indices)
        Indexed(obj, np_indices) ==
            IF obj.err /= NoErr THEN Err(obj.err)
            ELSE IF obj.scalar THEN R(obj, FALSE, self.parameters, np_indices)
            ELSE Sliced(obj, np_indices, create_sliced(self.parameters, np_indices))
        Std(np) ==
            IF np.err /= NoErr THEN Err(np.err)
            ELSE Indexed(NativeGetitem(self, np.idx), np.idx)
        Classified(gidx_obj_tuple) ==
            IF FirstErr(gidx_obj_tuple) /= NoErr THEN Err(FirstErr(gidx_obj_tuple))
            ELSE Std(to_std_index_tuple(self, gidx_obj_tuple))
    IN  IF /\ multi_index.bare
           /\ multi_index.items[1].kind = "atom"
           /\ multi_index.items[1].val.t = "int"
        THEN BareInt(NativeGetitem(self, multi_index.items))
        ELSE Classified([i \in 1..Len(multi_index.items) |->
                            GIndexObject(multi_index.items[i], self.parameters, i - 1)])

(* __array_finalize__: the new view takes the parameters of the array it   *)
(* is a view of.                                                           *)
array_finalize(h, self, obj) ==
    Append(h, [shape |-> obj.shape, flat |-> obj.flat, parameters |-> h[self].parameters])

(* The assignment as it would be were it made to self instead of obj. *)
assign_parameters_to_self(h, self, obj, ps) == [h EXCEPT ![self].parameters = ps]

(* obj.parameters = self.parameters.create_sliced(np_indices), on the heap *)
(* h where self and obj are positions.                                     *)
assign_parameters(h, self, obj, ps) == [h EXCEPT ![obj].parameters = ps]

(* ndarray.tolist(): nested lists; a node is a number (leaf) or a list.    *)
Leaf(x) == [leaf |-> TRUE, v |-> x, items |-> <<>>]

RECURSIVE tolist(_, _)
tolist(shape, flat) ==
    IF shape = <<>> THEN Leaf(flat[1])
    ELSE [leaf |-> FALSE, v |-> 0,
          items |-> [i \in 1..shape[1] |->
                        tolist(Tail(shape),
                               SubSeq(flat, (i - 1) * Prod(Tail(shape)) + 1,
                                      i * Prod(Tail(shape))))]]

(* np.asarray(nested, dtype=object): the shape is read off the nesting.    *)
RECURSIVE asarray_shape(_)
asarray_shape(node) ==
    IF node.leaf THEN <<>>
    ELSE IF node.items = <<>> THEN <<0>>
    ELSE <<Len(node.items)>> \o asarray_shape(node.items[1])

RECURSIVE asarray_flat(_)
asarray_flat(node) ==
    IF node.leaf THEN <<node.v>>
    ELSE Flatten([i \in 1..Len(node.items) |-> asarray_flat(node.items[i])])

asarray(node) == [shape |-> asarray_shape(node), flat |-> asarray_flat(node)]

serialize(self) ==
    [input_array |-> tolist(self.shape, self.flat),
     keys |-> self.parameters.keys,
     vals |-> self.parameters.vals]

deserialize(io_data) ==
    NamedSlotsNdarray(asarray(io_data.input_array), io_data.keys, io_data.vals)

----------------------------------------------------------------------------
(* Inputs *)

MaxCalls == 1

MaxParamCalls == 3

(* An input array of the given shape with pairwise distinct elements. *)
ArrayOf(shape) == [shape |-> shape, flat |-> [i \in 1..Prod(shape) |-> 100 + i]]

(* The arrays the runs start from.  SweepNgFlux: the class docstring's     *)
(* name-based example, values in tenths.  SweepParam12: its value-based    *)
(* example, values in hundredths, with one more dimension than names.      *)
(* SweepP: one named axis.                                                 *)
SweepNgFlux ==
    [shape |-> <<4, 5>>, keys |-> <<"ng", "flux">>,
     vals |-> [n \in {"ng", "flux"} |->
                  IF n = "ng" THEN <<-1, 0, 1, 2>> ELSE <<-10, -5, 0, 5, 10>>]]

SweepParam12 ==
    [shape |-> <<4, 3, 2>>, keys |-> <<"param1", "param2">>,
     vals |-> [n \in {"param1", "param2"} |->
                  IF n = "param1" THEN <<-440, -10, 30, 1000>> ELSE <<10, 300, 2500>>]]

SweepP ==
    [shape |-> <<3, 2>>, keys |-> <<"p">>,
     vals |-> [n \in {"p"} |-> <<0, 5, 10>>]]

Sweeps == {SweepNgFlux, SweepParam12, SweepP}

IntEntries == {Atom(IntV(0)), Atom(IntV(1)), Atom(IntV(-1))}

FloatEntries == {Atom(FloatV(5)), Atom(FloatV(25)), Atom(FloatV(30)), Atom(FloatV(10000))}

StdSliceEntries ==
    {FullSlice, Slice(IntV(1), IntV(3), None), Slice(IntV(0), IntV(1), None),
     Slice(IntV(2), IntV(2), None), Slice(None, None, IntV(-1))}

ValSliceEntries == {Slice(FloatV(0), FloatV(5), None), Slice(None, None, FloatV(5))}

NameEntries ==
    {Slice(StrV("flux"), FloatV(5), None), Slice(StrV("flux"), IntV(3), None),
     Slice(StrV("ng"), IntV(-1), None), Slice(StrV("flux"), None, IntV(2)),
     Slice(StrV("flux"), None, None), Slice(StrV("p"), IntV(1), IntV(3)),
     Slice(StrV("param2"), FloatV(30), None)}

OtherEntries == {Atom(StrV("ng")), Atom(None)}

Entries ==
    IntEntries \cup FloatEntries \cup StdSliceEntries \cup ValSliceEntries
        \cup NameEntries \cup OtherEntries

(* Entries the two-entry tuples are made of, and those of the three-entry tuples. *)
PairEntries ==
    {Atom(IntV(0)), Atom(IntV(-1)), Atom(FloatV(30)), Atom(FloatV(5)),
     FullSlice, Slice(IntV(1), IntV(3), None), Slice(IntV(0), IntV(1), None),
     Slice(StrV("flux"), FloatV(5), None), Slice(StrV("flux"), IntV(3), None),
     Slice(StrV("ng"), IntV(-1), None)}

TripleEntries == {Atom(IntV(0)), FullSlice, Slice(IntV(1), IntV(3), None)}

Bare(e) == [bare |-> TRUE, items |-> <<e>>]
Tuple(es) == [bare |-> FALSE, items |-> es]

MultiIndices ==
    {Bare(e) : e \in Entries}
        \cup {Tuple(<<>>)}
        \cup {Tuple(<<e>>) : e \in Entries}
        \cup {Tuple(<<e1, e2>>) : e1 \in PairEntries, e2 \in PairEntries}
        \cup {Tuple(<<e1, e2, e3>>) : e1 \in TripleEntries, e2 \in TripleEntries,
                                      e3 \in TripleEntries}

----------------------------------------------------------------------------
(* The arrays: heap holds every NamedSlotsNdarray made so far; last is the *)
(* last call, with the array it was made on as it was before the call.     *)

NoIndex == Tuple(<<>>)
NoData == [shape |-> <<>>, flat |-> <<>>]
Unset == Err("unset")

Call(op, src, before, index, err, scalar, res, np, out) ==
    [op |-> op, src |-> src, before |-> before, index |-> index, err |-> err,
     scalar |-> scalar, res |-> res, np_indices |-> np, out |-> out]

Init ==
    /\ \E c \in Sweeps :
          LET a == NamedSlotsNdarray(ArrayOf(c.shape), c.keys, c.vals)
          IN  /\ a.err = NoErr
              /\ heap = << [shape |-> a.shape, flat |-> a.flat, parameters |-> a.parameters] >>
    /\ last = Call("new", 0, NoData, NoIndex, NoErr, FALSE, 1, <<>>, NoData)
    /\ ncalls = 0
    /\ pset = Unset

(* array[multi_index] on the array at position self *)
GetHeap(h, self, r) ==
    IF r.err /= NoErr \/ r.scalar THEN h
    ELSE IF r.sliced
    THEN assign_parameters(array_finalize(h, self, r), self, Len(h) + 1, r.parameters)
    ELSE array_finalize(h, self, r)

GetCall(h, self, multi_index, r) ==
    IF r.err /= NoErr
    THEN Call("get", self, h[self], multi_index, r.err, FALSE, 0, <<>>, NoData)
    ELSE Call("get", self, h[self], multi_index, NoErr, r.scalar,
              IF r.scalar THEN 0 ELSE Len(h) + 1, r.np_indices,
              [shape |-> r.shape, flat |-> r.flat])

GetDone(self, multi_index, r) ==
    /\ heap' = GetHeap(heap, self, r)
    /\ last' = GetCall(heap, self, multi_index, r)

Get(self, multi_index) ==
    /\ ncalls < MaxCalls
    /\ GetDone(self, multi_index, getitem(heap[self], multi_index))
    /\ ncalls' = ncalls + 1
    /\ UNCHANGED pset

(* NamedSlotsNdarray.deserialize(array.serialize()) on the array at self *)
RoundTripCall(h, self, d) ==
    IF d.err /= NoErr
    THEN Call("roundtrip", self, h[self], NoIndex, d.err, FALSE, 0, <<>>, NoData)
    ELSE Call("roundtrip", self, h[self], NoIndex, NoErr, FALSE, 0, <<>>,
              [shape |-> d.shape, flat |-> d.flat, parameters |-> d.parameters])

RoundTrip(self) ==
    /\ last.op /= "roundtrip" \/ last.src /= self
    /\ last' = RoundTripCall(heap, self, deserialize(serialize(heap[self])))
    /\ UNCHANGED <<heap, ncalls, pset>>

Next ==
    \/ \E self \in 1..Len(heap), mi \in MultiIndices : Get(self, mi)
    \/ \E self \in 1..Len(heap) : RoundTrip(self)

Spec == Init /\ [][Next]_vars

----------------------------------------------------------------------------
(* Parameters on its own: construction from a dict and an optional name    *)
(* order, then create_reduced.  pset is the Parameters object; last is the *)
(* last call with the object it was made on and the call before it.        *)

ValueSeqs == {<<>>, <<7>>, <<1, 2>>}

DictKeyOrders == {<<"a">>, <<"a", "b">>, <<"b", "a">>}

Dicts == UNION {{[keys |-> ks, vals |-> f] : f \in [Range(ks) -> ValueSeqs]} : ks \in DictKeyOrders}

NameLists == {<<"a">>, <<"b">>, <<"a", "b">>, <<"b", "a">>, <<"a", "a">>, <<"c">>}

NoFixedValues == [given |-> FALSE, vals |-> <<>>]

FixedValues == {NoFixedValues, [given |-> TRUE, vals |-> << <<9>>, <<8, 6>> >>]}

NoDict == [keys |-> <<>>, vals |-> <<>>]

PCall(op, dict, names, fv, before, err, prev) ==
    [op |-> op, dict |-> dict, names |-> names, fv |-> fv, before |-> before,
     err |-> err, prev |-> prev]

Brief(c) == [op |-> c.op, names |-> c.names, fv |-> c.fv, err |-> c.err]

NoCall == [op |-> "none", names |-> <<>>, fv |-> NoFixedValues, err |-> NoErr]

InitP ==
    /\ heap = <<>>
    /\ pset = Unset
    /\ last = PCall("none", NoDict, <<>>, NoFixedValues, Unset, NoErr, NoCall)
    /\ ncalls = 0

(* Parameters(paramvals_by_name) and Parameters(paramvals_by_name, paramnames_list) *)
NewParameters(dict, names) ==
    /\ ncalls = 0
    /\ pset' = ParametersInit(dict.keys, dict.vals, names)
    /\ last' = PCall("new", dict, names, NoFixedValues, pset, pset'.err, Brief(last))
    /\ ncalls' = ncalls + 1
    /\ UNCHANGED heap

(* pset.create_reduced(fixed_parametername_list, fixed_values); the result *)
(* becomes pset.                                                           *)
ReduceDone(names, fv, r) ==
    /\ pset' = IF r.err = NoErr THEN r ELSE pset
    /\ last' = PCall("reduce", NoDict, names, fv, pset, r.err, Brief(last))

Reduce(names, fv) ==
    /\ ncalls > 0
    /\ ncalls < MaxParamCalls
    /\ pset.err = NoErr
    /\ ReduceDone(names, fv, create_reduced(pset, names, fv))
    /\ ncalls' = ncalls + 1
    /\ UNCHANGED heap

NextP ==
    \/ \E d \in Dicts : NewParameters(d, d.keys)
    \/ \E d \in Dicts, ns \in NameLists : NewParameters(d, ns)
    \/ \E ns \in NameLists \cup {<<>>}, fv \in FixedValues : Reduce(ns, fv)

SpecP == InitP /\ [][NextP]_vars

----------------------------------------------------------------------------
(* Properties *)

IsNameBased(e) == e.kind = "slice" /\ e.start.t = "str"

IsPlainBound(x) == x.t \in {"none", "int"}

(* A plain integer, or a slice with integer or absent start, stop and step. *)
IsPlain(e) ==
    \/ e.kind = "atom" /\ e.val.t = "int"
    \/ e.kind = "slice" /\ IsPlainBound(e.start) /\ IsPlainBound(e.stop) /\ IsPlainBound(e.step)

NoRepeat(names) == \A i, j \in 1..Len(names) : names[i] = names[j] => i = j

Data(a) == [shape |-> a.shape, flat |-> a.flat]

(* C1: a get whose index tuple holds a name-based entry and an entry that  *)
(* is not name-based, in either order, fails with the mixed-mode error.    *)
C1_MixedModeRejected ==
    (/\ last.op = "get"
     /\ \E i \in 1..Len(last.index.items) : IsNameBased(last.index.items[i])
     /\ \E i \in 1..Len(last.index.items) : ~IsNameBased(last.index.items[i]))
        => last.err = MixedErr

(* The positions a name-based expression 'name':value, ... addresses, by   *)
(* the named axis: the position of value in the values of that axis.       *)
NamedValuePosition(p, e) == FirstPos(p.vals[e.start.s], e.stop.v) - 1

IsNameValue(p, e) ==
    /\ IsNameBased(e)
    /\ e.stop.t = "float"
    /\ e.step.t = "none"
    /\ e.start.s \in DOMAIN p.vals
    /\ FirstPos(p.vals[e.start.s], e.stop.v) > 0

ExpectedNamed(p, items) ==
    [i \in 1..Len(p.paramnames_list) |->
        IF \E k \in 1..Len(items) : items[k].start.s = p.paramnames_list[i]
        THEN Atom(IntV(NamedValuePosition(p,
                 items[CHOOSE k \in 1..Len(items) : items[k].start.s = p.paramnames_list[i]])))
        ELSE FullSlice]

(* C2: in an all-name-based get, 'name':value with a value of the named    *)
(* axis resolves to that value's position on the named axis, whatever the  *)
(* entry's place in the tuple; unaddressed axes get a full slice, and the  *)
(* result is that of the positional get.                                   *)
C2_NameBasedEquivalence ==
    (/\ last.op = "get"
     /\ last.index.items /= <<>>
     /\ \A i \in 1..Len(last.index.items) :
           IsNameValue(last.before.parameters, last.index.items[i])
     /\ NoRepeat([i \in 1..Len(last.index.items) |-> last.index.items[i].start.s]))
        => /\ last.err = NoErr
           /\ last.np_indices = ExpectedNamed(last.before.parameters, last.index.items)
           /\ last.out = Data(NativeGetitem(last.before, last.np_indices))

(* C3: a get with plain integers and integer slices (at least one) that    *)
(* the underlying array accepts succeeds and returns the data of the       *)
(* array's own slicing.                                                    *)
C3_PositionalEquivalence ==
    (/\ last.op = "get"
     /\ last.index.items /= <<>>
     /\ \A i \in 1..Len(last.index.items) : IsPlain(last.index.items[i])
     /\ NativeGetitem(last.before, last.index.items).err = NoErr)
        => /\ last.err = NoErr
           /\ last.out = Data(NativeGetitem(last.before, last.index.items))

(* C4: on the axis values [-4.4, -0.1, 0.3, 10.0] (in hundredths) the      *)
(* index entry 0.25 resolves to position 2, that of the nearest value.     *)
C4_ValueLookupNearest ==
    (/\ last.op = "get"
     /\ last.index.items = <<Atom(FloatV(25))>>
     /\ paramvals_list(last.before.parameters)[1] = <<-440, -10, 30, 1000>>)
        => /\ last.err = NoErr
           /\ last.np_indices[1] = Atom(IntV(2))

(* The value sequence a positional index entry leaves of an axis. *)
SlicedValues(vals, e) == NativeGetitem1(vals, e).flat

(* C5: in the labeled result of a get with plain integers and slices, an   *)
(* axis indexed by an integer is absent, an axis sliced to more than one   *)
(* value is present with the sliced values, and an axis not addressed      *)
(* keeps its values.                                                       *)
C5_RankReductionLabeling ==
    (/\ last.op = "get"
     /\ last.err = NoErr
     /\ last.res > 0
     /\ \A i \in 1..Len(last.index.items) : IsPlain(last.index.items[i]))
        => \A i \in 1..Len(last.before.parameters.paramnames_list) :
              LET name == last.before.parameters.paramnames_list[i]
                  vals == last.before.parameters.vals[name]
                  res == heap[last.res].parameters
                  e == last.index.items[i]
              IN  IF i > Len(last.index.items)
                  THEN name \in DOMAIN res.vals /\ res.vals[name] = vals
                  ELSE IF e.kind = "atom" THEN name \notin DOMAIN res.vals
                  ELSE Len(SlicedValues(vals, e)) > 1
                          => /\ name \in DOMAIN res.vals
                             /\ res.vals[name] = SlicedValues(vals, e)

(* C6: deserialize(serialize(X)) succeeds and has X's data and X's ordered *)
(* name-to-values mapping.                                                 *)
C6_RoundTrip ==
    last.op = "roundtrip"
        => /\ last.err = NoErr
           /\ last.out.shape = last.before.shape
           /\ last.out.flat = last.before.flat
           /\ last.out.parameters.keys = last.before.parameters.keys
           /\ last.out.parameters.vals = last.before.parameters.vals

(* C9: for every array made, the i-th leading dimension has the length of  *)
(* the value sequence of the i-th axis.                                    *)
ShapeMatchesLabels(a) ==
    \A i \in 1..Len(a.parameters.paramnames_list) :
        /\ i <= Len(a.shape)
        /\ a.shape[i] = Len(a.parameters.vals[a.parameters.paramnames_list[i]])

C9_ShapeLabelConsistency == \A k \in 1..Len(heap) : ShapeMatchesLabels(heap[k])

(* C10: after a get, with a result or with an error, the array it was made *)
(* on has the data and the parameters it had before.                       *)
C10_GetLeavesSourceUnchanged ==
    last.op = "get" => heap[last.src] = last.before

C10_Witness ==
    /\ last.op = "get"
    /\ last.err = NoErr
    /\ last.res > 0
    /\ heap[last.res].parameters /= heap[last.src].parameters
    /\ heap[last.res].shape /= heap[last.src].shape

----------------------------------------------------------------------------
(* Properties of Parameters (under SpecP) *)

InverseBijections(p) ==
    /\ DOMAIN p.name_by_index = 0..(Len(p.paramnames_list) - 1)
    /\ DOMAIN p.index_by_name = Range(p.paramnames_list)
    /\ \A i \in DOMAIN p.name_by_index :
          /\ p.name_by_index[i] \in DOMAIN p.index_by_name
          /\ p.index_by_name[p.name_by_index[i]] = i
    /\ \A n \in DOMAIN p.index_by_name :
          /\ p.index_by_name[n] \in DOMAIN p.name_by_index
          /\ p.name_by_index[p.index_by_name[n]] = n

HasEmptyValues(dict, names) ==
    \E i \in 1..Len(names) : names[i] \in Range(dict.keys) /\ dict.vals[names[i]] = <<>>

C8_ReduceIdempotent ==
    /\ (/\ last.op = "reduce"
        /\ ~last.fv.given
        /\ last.prev.op = "reduce"
        /\ ~last.prev.fv.given
        /\ last.prev.err = NoErr
        /\ last.prev.names = last.names)
           => /\ last.err = NoErr
              /\ pset = last.before
    /\ (last.op = "reduce" /\ ~last.fv.given /\ last.err = NoErr)
           => /\ pset.paramnames_list = DictKeys(last.before.paramnames_list)
              /\ \A n \in Range(pset.paramnames_list) :
                    pset.vals[n] = IF n \in Range(last.names)
                                   THEN <<last.before.vals[n][1]>>
                                   ELSE last.before.vals[n]

C8_Witness ==
    /\ last.op = "reduce"
    /\ ~last.fv.given
    /\ last.prev.op = "reduce"
    /\ ~last.prev.fv.given
    /\ last.prev.err = NoErr
    /\ last.prev.names = last.names
    /\ last.names = <<"b">>
    /\ last.err = NoErr
    /\ pset.paramnames_list = <<"a", "b">>
    /\ pset.vals["a"] = <<1, 2>>
    /\ pset = last.before

====
